---- MODULE Spec2Model ----
(***************************************************************************)
(* Model of strict_filter_json (src/acgnai-remove-unneed.py): the          *)
(* merge-then-filter curation of a key -> record mapping.                  *)
(*                                                                         *)
(* A string is a sequence of characters.  A character is its Unicode code  *)
(* point, so that "_ZH" is <<95, 90, 72>> and "普通" is <<26222, 36890>>.   *)
(* A Python dict is a sequence of [key, val] entries in insertion order.   *)
(***************************************************************************)
EXTENDS Integers, Sequences, FiniteSets, TLC

VARIABLES
    inputExists,   \* whether input_file exists
    input,         \* the mapping stored in input_file
    output,        \* output_file: [exists, content, complete]
    outputBefore,  \* output_file as it was when the current run started
    runs,          \* number of runs of strict_filter_json started so far
    pc,            \* position in strict_filter_json
    data,          \* line 8
    sorted_keys,   \* line 44
    i,             \* index of the merge loop (line 48) in sorted_keys
    temp_map,      \* line 46
    merged_data,   \* line 39
    j,             \* index of the filter loop (line 79) in merged_data
    final_data,    \* line 77
    w              \* index in final_data of the entry json.dump writes next

vars == <<inputExists, input, output, outputBefore, runs, pc, data,
          sorted_keys, i, temp_map, merged_data, j, final_data, w>>

(***************************************************************************)
(* Bounds of the model.                                                    *)
(***************************************************************************)
MaxRecords == 3   \* entries in the input mapping
MaxRuns == 2      \* runs of the program, each after the first on the file written

(***************************************************************************)
(* Strings.                                                                *)
(***************************************************************************)
\* The tables of str.lower(), of Unicode 14.0.0.
\* LowerRuns: <<lo, hi, stride, delta>> says that each of the characters lo,
\* lo + stride, ..., hi has the lower-case form character + delta.
LowerRuns == <<
    <<65, 90, 1, 32>>, <<192, 214, 1, 32>>, <<216, 222, 1, 32>>, <<256, 302, 2, 1>>,
    <<306, 310, 2, 1>>, <<313, 327, 2, 1>>, <<330, 374, 2, 1>>, <<376, 376, 1, -121>>,
    <<377, 381, 2, 1>>, <<385, 385, 1, 210>>, <<386, 388, 2, 1>>, <<390, 390, 1, 206>>,
    <<391, 391, 1, 1>>, <<393, 394, 1, 205>>, <<395, 395, 1, 1>>, <<398, 398, 1, 79>>,
    <<399, 399, 1, 202>>, <<400, 400, 1, 203>>, <<401, 401, 1, 1>>, <<403, 403, 1, 205>>,
    <<404, 404, 1, 207>>, <<406, 406, 1, 211>>, <<407, 407, 1, 209>>, <<408, 408, 1, 1>>,
    <<412, 412, 1, 211>>, <<413, 413, 1, 213>>, <<415, 415, 1, 214>>, <<416, 420, 2, 1>>,
    <<422, 422, 1, 218>>, <<423, 423, 1, 1>>, <<425, 425, 1, 218>>, <<428, 428, 1, 1>>,
    <<430, 430, 1, 218>>, <<431, 431, 1, 1>>, <<433, 434, 1, 217>>, <<435, 437, 2, 1>>,
    <<439, 439, 1, 219>>, <<440, 440, 1, 1>>, <<444, 444, 1, 1>>, <<452, 452, 1, 2>>,
    <<453, 453, 1, 1>>, <<455, 455, 1, 2>>, <<456, 456, 1, 1>>, <<458, 458, 1, 2>>,
    <<459, 475, 2, 1>>, <<478, 494, 2, 1>>, <<497, 497, 1, 2>>, <<498, 500, 2, 1>>,
    <<502, 502, 1, -97>>, <<503, 503, 1, -56>>, <<504, 542, 2, 1>>, <<544, 544, 1, -130>>,
    <<546, 562, 2, 1>>, <<570, 570, 1, 10795>>, <<571, 571, 1, 1>>, <<573, 573, 1, -163>>,
    <<574, 574, 1, 10792>>, <<577, 577, 1, 1>>, <<579, 579, 1, -195>>, <<580, 580, 1, 69>>,
    <<581, 581, 1, 71>>, <<582, 590, 2, 1>>, <<880, 882, 2, 1>>, <<886, 886, 1, 1>>,
    <<895, 895, 1, 116>>, <<902, 902, 1, 38>>, <<904, 906, 1, 37>>, <<908, 908, 1, 64>>,
    <<910, 911, 1, 63>>, <<913, 929, 1, 32>>, <<931, 939, 1, 32>>, <<975, 975, 1, 8>>,
    <<984, 1006, 2, 1>>, <<1012, 1012, 1, -60>>, <<1015, 1015, 1, 1>>, <<1017, 1017, 1, -7>>,
    <<1018, 1018, 1, 1>>, <<1021, 1023, 1, -130>>, <<1024, 1039, 1, 80>>, <<1040, 1071, 1, 32>>,
    <<1120, 1152, 2, 1>>, <<1162, 1214, 2, 1>>, <<1216, 1216, 1, 15>>, <<1217, 1229, 2, 1>>,
    <<1232, 1326, 2, 1>>, <<1329, 1366, 1, 48>>, <<4256, 4293, 1, 7264>>, <<4295, 4295, 1, 7264>>,
    <<4301, 4301, 1, 7264>>, <<5024, 5103, 1, 38864>>, <<5104, 5109, 1, 8>>, <<7312, 7354, 1, -3008>>,
    <<7357, 7359, 1, -3008>>, <<7680, 7828, 2, 1>>, <<7838, 7838, 1, -7615>>, <<7840, 7934, 2, 1>>,
    <<7944, 7951, 1, -8>>, <<7960, 7965, 1, -8>>, <<7976, 7983, 1, -8>>, <<7992, 7999, 1, -8>>,
    <<8008, 8013, 1, -8>>, <<8025, 8031, 2, -8>>, <<8040, 8047, 1, -8>>, <<8072, 8079, 1, -8>>,
    <<8088, 8095, 1, -8>>, <<8104, 8111, 1, -8>>, <<8120, 8121, 1, -8>>, <<8122, 8123, 1, -74>>,
    <<8124, 8124, 1, -9>>, <<8136, 8139, 1, -86>>, <<8140, 8140, 1, -9>>, <<8152, 8153, 1, -8>>,
    <<8154, 8155, 1, -100>>, <<8168, 8169, 1, -8>>, <<8170, 8171, 1, -112>>, <<8172, 8172, 1, -7>>,
    <<8184, 8185, 1, -128>>, <<8186, 8187, 1, -126>>, <<8188, 8188, 1, -9>>, <<8486, 8486, 1, -7517>>,
    <<8490, 8490, 1, -8383>>, <<8491, 8491, 1, -8262>>, <<8498, 8498, 1, 28>>, <<8544, 8559, 1, 16>>,
    <<8579, 8579, 1, 1>>, <<9398, 9423, 1, 26>>, <<11264, 11311, 1, 48>>, <<11360, 11360, 1, 1>>,
    <<11362, 11362, 1, -10743>>, <<11363, 11363, 1, -3814>>, <<11364, 11364, 1, -10727>>, <<11367, 11371, 2, 1>>,
    <<11373, 11373, 1, -10780>>, <<11374, 11374, 1, -10749>>, <<11375, 11375, 1, -10783>>, <<11376, 11376, 1, -10782>>,
    <<11378, 11378, 1, 1>>, <<11381, 11381, 1, 1>>, <<11390, 11391, 1, -10815>>, <<11392, 11490, 2, 1>>,
    <<11499, 11501, 2, 1>>, <<11506, 11506, 1, 1>>, <<42560, 42604, 2, 1>>, <<42624, 42650, 2, 1>>,
    <<42786, 42798, 2, 1>>, <<42802, 42862, 2, 1>>, <<42873, 42875, 2, 1>>, <<42877, 42877, 1, -35332>>,
    <<42878, 42886, 2, 1>>, <<42891, 42891, 1, 1>>, <<42893, 42893, 1, -42280>>, <<42896, 42898, 2, 1>>,
    <<42902, 42920, 2, 1>>, <<42922, 42922, 1, -42308>>, <<42923, 42923, 1, -42319>>, <<42924, 42924, 1, -42315>>,
    <<42925, 42925, 1, -42305>>, <<42926, 42926, 1, -42308>>, <<42928, 42928, 1, -42258>>, <<42929, 42929, 1, -42282>>,
    <<42930, 42930, 1, -42261>>, <<42931, 42931, 1, 928>>, <<42932, 42946, 2, 1>>, <<42948, 42948, 1, -48>>,
    <<42949, 42949, 1, -42307>>, <<42950, 42950, 1, -35384>>, <<42951, 42953, 2, 1>>, <<42960, 42960, 1, 1>>,
    <<42966, 42968, 2, 1>>, <<42997, 42997, 1, 1>>, <<65313, 65338, 1, 32>>, <<66560, 66599, 1, 40>>,
    <<66736, 66771, 1, 40>>, <<66928, 66938, 1, 39>>, <<66940, 66954, 1, 39>>, <<66956, 66962, 1, 39>>,
    <<66964, 66965, 1, 39>>, <<68736, 68786, 1, 64>>, <<71840, 71871, 1, 32>>, <<93760, 93791, 1, 32>>,
    <<125184, 125217, 1, 34>> >>

\* the case-ignorable characters
CaseIgnorableRanges == <<
    <<39, 39>>, <<46, 46>>, <<58, 58>>, <<94, 94>>, <<96, 96>>,
    <<168, 168>>, <<173, 173>>, <<175, 175>>, <<180, 180>>, <<183, 184>>,
    <<688, 879>>, <<884, 885>>, <<890, 890>>, <<900, 901>>, <<903, 903>>,
    <<1155, 1161>>, <<1369, 1369>>, <<1375, 1375>>, <<1425, 1469>>, <<1471, 1471>>,
    <<1473, 1474>>, <<1476, 1477>>, <<1479, 1479>>, <<1524, 1524>>, <<1536, 1541>>,
    <<1552, 1562>>, <<1564, 1564>>, <<1600, 1600>>, <<1611, 1631>>, <<1648, 1648>>,
    <<1750, 1757>>, <<1759, 1768>>, <<1770, 1773>>, <<1807, 1807>>, <<1809, 1809>>,
    <<1840, 1866>>, <<1958, 1968>>, <<2027, 2037>>, <<2042, 2042>>, <<2045, 2045>>,
    <<2070, 2093>>, <<2137, 2139>>, <<2184, 2184>>, <<2192, 2193>>, <<2200, 2207>>,
    <<2249, 2306>>, <<2362, 2362>>, <<2364, 2364>>, <<2369, 2376>>, <<2381, 2381>>,
    <<2385, 2391>>, <<2402, 2403>>, <<2417, 2417>>, <<2433, 2433>>, <<2492, 2492>>,
    <<2497, 2500>>, <<2509, 2509>>, <<2530, 2531>>, <<2558, 2558>>, <<2561, 2562>>,
    <<2620, 2620>>, <<2625, 2626>>, <<2631, 2632>>, <<2635, 2637>>, <<2641, 2641>>,
    <<2672, 2673>>, <<2677, 2677>>, <<2689, 2690>>, <<2748, 2748>>, <<2753, 2757>>,
    <<2759, 2760>>, <<2765, 2765>>, <<2786, 2787>>, <<2810, 2815>>, <<2817, 2817>>,
    <<2876, 2876>>, <<2879, 2879>>, <<2881, 2884>>, <<2893, 2893>>, <<2901, 2902>>,
    <<2914, 2915>>, <<2946, 2946>>, <<3008, 3008>>, <<3021, 3021>>, <<3072, 3072>>,
    <<3076, 3076>>, <<3132, 3132>>, <<3134, 3136>>, <<3142, 3144>>, <<3146, 3149>>,
    <<3157, 3158>>, <<3170, 3171>>, <<3201, 3201>>, <<3260, 3260>>, <<3263, 3263>>,
    <<3270, 3270>>, <<3276, 3277>>, <<3298, 3299>>, <<3328, 3329>>, <<3387, 3388>>,
    <<3393, 3396>>, <<3405, 3405>>, <<3426, 3427>>, <<3457, 3457>>, <<3530, 3530>>,
    <<3538, 3540>>, <<3542, 3542>>, <<3633, 3633>>, <<3636, 3642>>, <<3654, 3662>>,
    <<3761, 3761>>, <<3764, 3772>>, <<3782, 3782>>, <<3784, 3789>>, <<3864, 3865>>,
    <<3893, 3893>>, <<3895, 3895>>, <<3897, 3897>>, <<3953, 3966>>, <<3968, 3972>>,
    <<3974, 3975>>, <<3981, 3991>>, <<3993, 4028>>, <<4038, 4038>>, <<4141, 4144>>,
    <<4146, 4151>>, <<4153, 4154>>, <<4157, 4158>>, <<4184, 4185>>, <<4190, 4192>>,
    <<4209, 4212>>, <<4226, 4226>>, <<4229, 4230>>, <<4237, 4237>>, <<4253, 4253>>,
    <<4348, 4348>>, <<4957, 4959>>, <<5906, 5908>>, <<5938, 5939>>, <<5970, 5971>>,
    <<6002, 6003>>, <<6068, 6069>>, <<6071, 6077>>, <<6086, 6086>>, <<6089, 6099>>,
    <<6103, 6103>>, <<6109, 6109>>, <<6155, 6159>>, <<6211, 6211>>, <<6277, 6278>>,
    <<6313, 6313>>, <<6432, 6434>>, <<6439, 6440>>, <<6450, 6450>>, <<6457, 6459>>,
    <<6679, 6680>>, <<6683, 6683>>, <<6742, 6742>>, <<6744, 6750>>, <<6752, 6752>>,
    <<6754, 6754>>, <<6757, 6764>>, <<6771, 6780>>, <<6783, 6783>>, <<6823, 6823>>,
    <<6832, 6862>>, <<6912, 6915>>, <<6964, 6964>>, <<6966, 6970>>, <<6972, 6972>>,
    <<6978, 6978>>, <<7019, 7027>>, <<7040, 7041>>, <<7074, 7077>>, <<7080, 7081>>,
    <<7083, 7085>>, <<7142, 7142>>, <<7144, 7145>>, <<7149, 7149>>, <<7151, 7153>>,
    <<7212, 7219>>, <<7222, 7223>>, <<7288, 7293>>, <<7376, 7378>>, <<7380, 7392>>,
    <<7394, 7400>>, <<7405, 7405>>, <<7412, 7412>>, <<7416, 7417>>, <<7468, 7530>>,
    <<7544, 7544>>, <<7579, 7679>>, <<8125, 8125>>, <<8127, 8129>>, <<8141, 8143>>,
    <<8157, 8159>>, <<8173, 8175>>, <<8189, 8190>>, <<8203, 8207>>, <<8216, 8217>>,
    <<8228, 8228>>, <<8231, 8231>>, <<8234, 8238>>, <<8288, 8292>>, <<8294, 8303>>,
    <<8305, 8305>>, <<8319, 8319>>, <<8336, 8348>>, <<8400, 8432>>, <<11388, 11389>>,
    <<11503, 11505>>, <<11631, 11631>>, <<11647, 11647>>, <<11744, 11775>>, <<11823, 11823>>,
    <<12293, 12293>>, <<12330, 12333>>, <<12337, 12341>>, <<12347, 12347>>, <<12441, 12446>>,
    <<12540, 12542>>, <<40981, 40981>>, <<42232, 42237>>, <<42508, 42508>>, <<42607, 42610>>,
    <<42612, 42621>>, <<42623, 42623>>, <<42652, 42655>>, <<42736, 42737>>, <<42752, 42785>>,
    <<42864, 42864>>, <<42888, 42890>>, <<42994, 42996>>, <<43000, 43001>>, <<43010, 43010>>,
    <<43014, 43014>>, <<43019, 43019>>, <<43045, 43046>>, <<43052, 43052>>, <<43204, 43205>>,
    <<43232, 43249>>, <<43263, 43263>>, <<43302, 43309>>, <<43335, 43345>>, <<43392, 43394>>,
    <<43443, 43443>>, <<43446, 43449>>, <<43452, 43453>>, <<43471, 43471>>, <<43493, 43494>>,
    <<43561, 43566>>, <<43569, 43570>>, <<43573, 43574>>, <<43587, 43587>>, <<43596, 43596>>,
    <<43632, 43632>>, <<43644, 43644>>, <<43696, 43696>>, <<43698, 43700>>, <<43703, 43704>>,
    <<43710, 43711>>, <<43713, 43713>>, <<43741, 43741>>, <<43756, 43757>>, <<43763, 43764>>,
    <<43766, 43766>>, <<43867, 43871>>, <<43881, 43883>>, <<44005, 44005>>, <<44008, 44008>>,
    <<44013, 44013>>, <<64286, 64286>>, <<64434, 64450>>, <<65024, 65039>>, <<65043, 65043>>,
    <<65056, 65071>>, <<65106, 65106>>, <<65109, 65109>>, <<65279, 65279>>, <<65287, 65287>>,
    <<65294, 65294>>, <<65306, 65306>>, <<65342, 65342>>, <<65344, 65344>>, <<65392, 65392>>,
    <<65438, 65439>>, <<65507, 65507>>, <<65529, 65531>>, <<66045, 66045>>, <<66272, 66272>>,
    <<66422, 66426>>, <<67456, 67461>>, <<67463, 67504>>, <<67506, 67514>>, <<68097, 68099>>,
    <<68101, 68102>>, <<68108, 68111>>, <<68152, 68154>>, <<68159, 68159>>, <<68325, 68326>>,
    <<68900, 68903>>, <<69291, 69292>>, <<69446, 69456>>, <<69506, 69509>>, <<69633, 69633>>,
    <<69688, 69702>>, <<69744, 69744>>, <<69747, 69748>>, <<69759, 69761>>, <<69811, 69814>>,
    <<69817, 69818>>, <<69821, 69821>>, <<69826, 69826>>, <<69837, 69837>>, <<69888, 69890>>,
    <<69927, 69931>>, <<69933, 69940>>, <<70003, 70003>>, <<70016, 70017>>, <<70070, 70078>>,
    <<70089, 70092>>, <<70095, 70095>>, <<70191, 70193>>, <<70196, 70196>>, <<70198, 70199>>,
    <<70206, 70206>>, <<70367, 70367>>, <<70371, 70378>>, <<70400, 70401>>, <<70459, 70460>>,
    <<70464, 70464>>, <<70502, 70508>>, <<70512, 70516>>, <<70712, 70719>>, <<70722, 70724>>,
    <<70726, 70726>>, <<70750, 70750>>, <<70835, 70840>>, <<70842, 70842>>, <<70847, 70848>>,
    <<70850, 70851>>, <<71090, 71093>>, <<71100, 71101>>, <<71103, 71104>>, <<71132, 71133>>,
    <<71219, 71226>>, <<71229, 71229>>, <<71231, 71232>>, <<71339, 71339>>, <<71341, 71341>>,
    <<71344, 71349>>, <<71351, 71351>>, <<71453, 71455>>, <<71458, 71461>>, <<71463, 71467>>,
    <<71727, 71735>>, <<71737, 71738>>, <<71995, 71996>>, <<71998, 71998>>, <<72003, 72003>>,
    <<72148, 72151>>, <<72154, 72155>>, <<72160, 72160>>, <<72193, 72202>>, <<72243, 72248>>,
    <<72251, 72254>>, <<72263, 72263>>, <<72273, 72278>>, <<72281, 72283>>, <<72330, 72342>>,
    <<72344, 72345>>, <<72752, 72758>>, <<72760, 72765>>, <<72767, 72767>>, <<72850, 72871>>,
    <<72874, 72880>>, <<72882, 72883>>, <<72885, 72886>>, <<73009, 73014>>, <<73018, 73018>>,
    <<73020, 73021>>, <<73023, 73029>>, <<73031, 73031>>, <<73104, 73105>>, <<73109, 73109>>,
    <<73111, 73111>>, <<73459, 73460>>, <<78896, 78904>>, <<92912, 92916>>, <<92976, 92982>>,
    <<92992, 92995>>, <<94031, 94031>>, <<94095, 94111>>, <<94176, 94177>>, <<94179, 94180>>,
    <<110576, 110579>>, <<110581, 110587>>, <<110589, 110590>>, <<113821, 113822>>, <<113824, 113827>>,
    <<118528, 118573>>, <<118576, 118598>>, <<119143, 119145>>, <<119155, 119170>>, <<119173, 119179>>,
    <<119210, 119213>>, <<119362, 119364>>, <<121344, 121398>>, <<121403, 121452>>, <<121461, 121461>>,
    <<121476, 121476>>, <<121499, 121503>>, <<121505, 121519>>, <<122880, 122886>>, <<122888, 122904>>,
    <<122907, 122913>>, <<122915, 122916>>, <<122918, 122922>>, <<123184, 123197>>, <<123566, 123566>>,
    <<123628, 123631>>, <<125136, 125142>>, <<125252, 125259>>, <<127995, 127999>>, <<917505, 917505>>,
    <<917536, 917631>>, <<917760, 917999>> >>

\* the cased characters that are not case-ignorable
CasedRanges == <<
    <<65, 90>>, <<97, 122>>, <<170, 170>>, <<181, 181>>, <<186, 186>>,
    <<192, 214>>, <<216, 246>>, <<248, 442>>, <<444, 447>>, <<452, 659>>,
    <<661, 687>>, <<880, 883>>, <<886, 887>>, <<891, 893>>, <<895, 895>>,
    <<902, 902>>, <<904, 906>>, <<908, 908>>, <<910, 929>>, <<931, 1013>>,
    <<1015, 1153>>, <<1162, 1327>>, <<1329, 1366>>, <<1376, 1416>>, <<4256, 4293>>,
    <<4295, 4295>>, <<4301, 4301>>, <<4304, 4346>>, <<4349, 4351>>, <<5024, 5109>>,
    <<5112, 5117>>, <<7296, 7304>>, <<7312, 7354>>, <<7357, 7359>>, <<7424, 7467>>,
    <<7531, 7543>>, <<7545, 7578>>, <<7680, 7957>>, <<7960, 7965>>, <<7968, 8005>>,
    <<8008, 8013>>, <<8016, 8023>>, <<8025, 8025>>, <<8027, 8027>>, <<8029, 8029>>,
    <<8031, 8061>>, <<8064, 8116>>, <<8118, 8124>>, <<8126, 8126>>, <<8130, 8132>>,
    <<8134, 8140>>, <<8144, 8147>>, <<8150, 8155>>, <<8160, 8172>>, <<8178, 8180>>,
    <<8182, 8188>>, <<8450, 8450>>, <<8455, 8455>>, <<8458, 8467>>, <<8469, 8469>>,
    <<8473, 8477>>, <<8484, 8484>>, <<8486, 8486>>, <<8488, 8488>>, <<8490, 8493>>,
    <<8495, 8500>>, <<8505, 8505>>, <<8508, 8511>>, <<8517, 8521>>, <<8526, 8526>>,
    <<8544, 8575>>, <<8579, 8580>>, <<9398, 9449>>, <<11264, 11387>>, <<11390, 11492>>,
    <<11499, 11502>>, <<11506, 11507>>, <<11520, 11557>>, <<11559, 11559>>, <<11565, 11565>>,
    <<42560, 42605>>, <<42624, 42651>>, <<42786, 42863>>, <<42865, 42887>>, <<42891, 42894>>,
    <<42896, 42954>>, <<42960, 42961>>, <<42963, 42963>>, <<42965, 42969>>, <<42997, 42998>>,
    <<43002, 43002>>, <<43824, 43866>>, <<43872, 43880>>, <<43888, 43967>>, <<64256, 64262>>,
    <<64275, 64279>>, <<65313, 65338>>, <<65345, 65370>>, <<66560, 66639>>, <<66736, 66771>>,
    <<66776, 66811>>, <<66928, 66938>>, <<66940, 66954>>, <<66956, 66962>>, <<66964, 66965>>,
    <<66967, 66977>>, <<66979, 66993>>, <<66995, 67001>>, <<67003, 67004>>, <<68736, 68786>>,
    <<68800, 68850>>, <<71840, 71903>>, <<93760, 93823>>, <<119808, 119892>>, <<119894, 119964>>,
    <<119966, 119967>>, <<119970, 119970>>, <<119973, 119974>>, <<119977, 119980>>, <<119982, 119993>>,
    <<119995, 119995>>, <<119997, 120003>>, <<120005, 120069>>, <<120071, 120074>>, <<120077, 120084>>,
    <<120086, 120092>>, <<120094, 120121>>, <<120123, 120126>>, <<120128, 120132>>, <<120134, 120134>>,
    <<120138, 120144>>, <<120146, 120485>>, <<120488, 120512>>, <<120514, 120538>>, <<120540, 120570>>,
    <<120572, 120596>>, <<120598, 120628>>, <<120630, 120654>>, <<120656, 120686>>, <<120688, 120712>>,
    <<120714, 120744>>, <<120746, 120770>>, <<120772, 120779>>, <<122624, 122633>>, <<122635, 122654>>,
    <<125184, 125251>>, <<127280, 127305>>, <<127312, 127337>>, <<127344, 127369>> >>

InRanges(c, ranges) ==
    \E r \in 1..Len(ranges) : ranges[r][1] <= c /\ c <= ranges[r][2]

IsCaseIgnorable(c) == InRanges(c, CaseIgnorableRanges)

\* whether c is cased, for a c that is not case-ignorable
IsCased(c) == InRanges(c, CasedRanges)

InRun(c, run) ==
    /\ run[1] <= c
    /\ c <= run[2]
    /\ (c - run[1]) % run[3] = 0

\* str.lower() of one character other than capital sigma: a string, of two
\* characters for U+0130
LowerChar(c) ==
    IF c < 128 THEN (IF 65 <= c /\ c <= 90 THEN <<c + 32>> ELSE <<c>>)
    ELSE IF c = 304 THEN <<105, 775>>
    ELSE IF \E r \in 1..Len(LowerRuns) : InRun(c, LowerRuns[r])
         THEN <<c + LowerRuns[CHOOSE r \in 1..Len(LowerRuns) :
                                  InRun(c, LowerRuns[r])][4]>>
         ELSE <<c>>

\* whether the capital sigma s[n] is in final position: the nearest character
\* before it that is not case-ignorable is cased, and the nearest one after
\* it that is not case-ignorable, if any, is not cased
IsFinalSigma(s, n) ==
    LET before == {m \in 1..(n - 1) : ~IsCaseIgnorable(s[m])}
        after == {m \in (n + 1)..Len(s) : ~IsCaseIgnorable(s[m])}
    IN  /\ before # {}
        /\ IsCased(s[CHOOSE m \in before : \A o \in before : o <= m])
        /\ \/ after = {}
           \/ ~IsCased(s[CHOOSE m \in after : \A o \in after : m <= o])

\* str.lower() of the character s[n] of s: a string
LowerAt(s, n) ==
    IF s[n] = 931
    THEN (IF IsFinalSigma(s, n) THEN <<962>> ELSE <<963>>)
    ELSE LowerChar(s[n])

RECURSIVE StrLowerFrom(_, _)
StrLowerFrom(s, n) ==
    IF n > Len(s) THEN <<>>
    ELSE LowerAt(s, n) \o StrLowerFrom(s, n + 1)

\* str.lower(): the lower-case forms of the characters, one after the other;
\* each is one character when U+0130 does not occur
StrLower(s) ==
    IF \A n \in 1..Len(s) : s[n] # 304
    THEN [n \in 1..Len(s) |-> LowerAt(s, n)[1]]
    ELSE StrLowerFrom(s, 1)

\* Python's  sub in s  on strings
Contains(s, sub) ==
    \E n \in 0..(Len(s) - Len(sub)) : SubSeq(s, n + 1, n + Len(sub)) = sub

\* str.endswith(suf)
EndsWith(s, suf) ==
    /\ Len(s) >= Len(suf)
    /\ SubSeq(s, Len(s) - Len(suf) + 1, Len(s)) = suf

\* str.replace(old, ""): every non-overlapping occurrence of old, found left
\* to right in one pass, is removed
RECURSIVE StrRemoveAll(_, _)
StrRemoveAll(s, old) ==
    IF Len(s) < Len(old) THEN s
    ELSE IF SubSeq(s, 1, Len(old)) = old
         THEN StrRemoveAll(SubSeq(s, Len(old) + 1, Len(s)), old)
         ELSE <<Head(s)>> \o StrRemoveAll(Tail(s), old)

\* str.split('-')[-1]: what follows the last hyphen, the whole string when
\* there is none
RECURSIVE LastSegment(_)
LastSegment(s) ==
    IF \E n \in 1..Len(s) : s[n] = 45
    THEN LastSegment(Tail(s))
    ELSE s

(***************************************************************************)
(* Dicts in insertion order.                                               *)
(***************************************************************************)
Entry(k, v) == [key |-> k, val |-> v]

DictKeys(d) == [n \in 1..Len(d) |-> d[n].key]

KeySet(d) == {d[n].key : n \in 1..Len(d)}

HasKey(d, k) == \E n \in 1..Len(d) : d[n].key = k

\* d[k]
DictGet(d, k) == d[CHOOSE n \in 1..Len(d) : d[n].key = k].val

\* d[k] = v: an existing key keeps its position, a new one is appended
DictPut(d, k, v) ==
    IF HasKey(d, k)
    THEN [n \in 1..Len(d) |-> IF d[n].key = k THEN Entry(k, v) ELSE d[n]]
    ELSE Append(d, Entry(k, v))

(***************************************************************************)
(* Configuration of strict_filter_json.                                    *)
(***************************************************************************)
MIN_EMOTION_COUNT == 6

BANNED_TAGS == <<
    <<26222, 36890>>,                      \* 普通
    <<24179, 27665>>,                      \* 平民
    <<40857, 22871>>,                      \* 龙套
    <<40845, 22871>>,                      \* 龍套
    <<36335, 20154>>,                      \* 路人
    <<26449, 27665>>,                      \* 村民
    <<22763, 20853>>,                      \* 士兵
    <<21355, 20853>>,                      \* 卫兵
    <<23432, 21355>>,                      \* 守卫
    <<30007>>,                                \* 男
    <<22899>>,                                \* 女
    <<24618, 29289>>,                      \* 怪物
    <<29983, 29289>>,                      \* 生物
    <<32431, 27700, 31934, 28789>>,  \* 纯水精灵
    <<20803, 32032, 29983, 21629>>,  \* 元素生命
    <<19992, 19992, 20154>> >>          \* 丘丘人

BANNED_NAMES == <<
    <<78, 80, 67>>,       \* NPC
    <<31995, 32479>>,  \* 系统
    <<26049, 30333>>,  \* 旁白
    <<26410, 30693>>,  \* 未知
    <<22823, 21460>>,  \* 大叔
    <<23567, 23401>>,  \* 小孩
    <<23569, 22899>> >>  \* 少女

\* the list of line 53
LanguageMarkers == <<
    <<95, 101, 110>>,
    <<95, 106, 97>>,
    <<101, 110, 103, 108, 105, 115, 104>>,
    <<106, 97, 112, 97, 110, 101, 115, 101>>,
    <<33521, 35821>>,   \* 英语
    <<26085, 35821>> >> \* 日语

\* the variant marker "_ZH"
ZH == <<95, 90, 72>>

(***************************************************************************)
(* JSON values, as far as the code looks at them.                          *)
(***************************************************************************)
\* what isinstance() and len() see of a value
Shape(kind, len) == [kind |-> kind, len |-> len]

NoShape == Shape("null", 0)

\* the "emotion" field: a list of n entries, a dict of n entries whose first
\* value has the shape first, a string of n characters, a number, null, or no
\* such field
EmotionList(n) == [kind |-> "list", len |-> n, first |-> NoShape]
EmotionDict(n, first) == [kind |-> "dict", len |-> n, first |-> first]
EmotionStr(n) == [kind |-> "str", len |-> n, first |-> NoShape]
EmotionNum == [kind |-> "num", len |-> 0, first |-> NoShape]
EmotionNull == [kind |-> "null", len |-> 0, first |-> NoShape]
EmotionAbsent == [kind |-> "absent", len |-> 0, first |-> NoShape]

\* the "tags" field: a list of strings, or no such field
Tags(list) == [present |-> TRUE, list |-> list]
NoTags == [present |-> FALSE, list |-> <<>>]

\* a record: a JSON object; id stands for its other fields, and encodable
\* says whether every string of the record outside its tags (the entries of
\* emotion, the keys of an emotion mapping, the other fields) has a utf-8
\* encoding
Record(tags, emotion, id) ==
    [isDict |-> TRUE, tags |-> tags, emotion |-> emotion, id |-> id,
     encodable |-> TRUE]

\* the record with a lone surrogate in a string outside its tags
WithSurrogate(value) == [value EXCEPT !.encodable = FALSE]

\* a value of the input mapping that is no JSON object
NotARecord ==
    [isDict |-> FALSE, tags |-> NoTags, emotion |-> EmotionAbsent, id |-> 0,
     encodable |-> TRUE]

ToSet(seq) == {seq[n] : n \in 1..Len(seq)}

\* list(S) for a set S: the elements once each, in an order the build chooses
ListsOf(S) ==
    {q \in [1..Cardinality(S) -> S] : \A e \in S : \E n \in DOMAIN q : q[n] = e}

(***************************************************************************)
(* The expressions of strict_filter_json.                                  *)
(***************************************************************************)
\* the sort key of line 44
SortPriority(k) == IF EndsWith(k, ZH) THEN 1 ELSE 2

\* sorted(data.keys(), key=...) of line 44: a stable sort on two priorities
SortedKeys(d) ==
    SelectSeq(DictKeys(d), LAMBDA k : SortPriority(k) = 1)
        \o SelectSeq(DictKeys(d), LAMBDA k : SortPriority(k) = 2)

\* a change of lines 52-53: the markers are looked for in the key as it is
\* written, not in its lower-cased form
IsLanguageExcludedCaseSensitive(key) ==
    \E n \in 1..Len(LanguageMarkers) : Contains(key, LanguageMarkers[n])

\* lines 52-53
IsLanguageExcluded(key) ==
    LET key_lower == StrLower(key)
    IN  \E n \in 1..Len(LanguageMarkers) : Contains(key_lower, LanguageMarkers[n])

\* line 56
BaseName(key) == StrRemoveAll(key, ZH)

\* value.get('tags', [])
GetTags(value) == IF value.tags.present THEN value.tags.list ELSE <<>>

\* a change of line 65: the tags of the later record are left out
NewTagsExistingOnly(existing_data, value) == ToSet(GetTags(existing_data))

\* line 65
NewTags(existing_data, value) == ToSet(GetTags(existing_data)) \cup ToSet(GetTags(value))

\* line 66
SetTags(value, list) == [value EXCEPT !.tags = Tags(list)]

\* a change of lines 69-70: a new entry is stored under its base name
StoredKeyBase(key, base_name) == base_name

\* lines 69-70: the key a new entry is remembered and stored under
StoredKey(key, base_name) == key

\* lines 82-88: value.get("emotion", []) and its coercion
Emotions(value) ==
    LET emotions == IF value.emotion.kind = "absent" THEN EmotionList(0)
                    ELSE value.emotion
    IN  IF emotions.kind = "list" THEN Shape("list", emotions.len)
        ELSE IF emotions.kind = "dict"
             THEN (IF emotions.len > 0 THEN emotions.first ELSE Shape("list", 0))
             ELSE Shape(emotions.kind, emotions.len)

\* whether len() of line 90 accepts the value
HasLen(shape) == shape.kind \in {"list", "dict", "str"}

\* line 90
BelowThreshold(value) == Emotions(value).len < MIN_EMOTION_COUNT

\* lines 94-102
IsBannedTag(value) ==
    \E t \in 1..Len(GetTags(value)) : \E b \in 1..Len(BANNED_TAGS) :
        Contains(GetTags(value)[t], BANNED_TAGS[b])

\* line 112
NamePart(key) == StrRemoveAll(LastSegment(key), ZH)

\* lines 108-116
IsBannedName(key) ==
    \E b \in 1..Len(BANNED_NAMES) : BANNED_NAMES[b] = NamePart(key)

(***************************************************************************)
(* Input mappings.                                                         *)
(***************************************************************************)
TagX == <<120>>
TagY == <<121>>
TagZ == <<122>>
TagOrdinary == <<26222, 36890, 20154>>  \* 普通人
TagSpecial == <<29305, 27530, 20154>>   \* 特殊人

\* the entries an input mapping is made of
Catalogue == {
    \* "A_ZH"
    Entry(<<65>> \o ZH, Record(Tags(<<TagX>>), EmotionList(6), 1)),
    \* "A"
    Entry(<<65>>, Record(Tags(<<TagY>>), EmotionList(0), 2)),
    Entry(<<65>>, Record(Tags(<<TagOrdinary>>), EmotionList(6), 3)),
    \* "A" with the lone surrogate U+D800 in an entry of emotion
    Entry(<<65>>, WithSurrogate(Record(Tags(<<TagZ>>), EmotionList(6), 18))),
    \* "A_ZH_ZH"
    Entry(<<65>> \o ZH \o ZH, Record(Tags(<<TagZ>>), EmotionList(6), 4)),
    \* "s-NPC_ZH"
    Entry(<<115, 45, 78, 80, 67>> \o ZH, Record(NoTags, EmotionList(6), 5)),
    \* "N_ZHPC"
    Entry(<<78>> \o ZH \o <<80, 67>>, Record(Tags(<<TagSpecial>>), EmotionList(6), 6)),
    \* "NPCish"
    Entry(<<78, 80, 67, 105, 115, 104>>, Record(Tags(<<>>), EmotionList(7), 7)),
    \* "É_EN"
    Entry(<<201, 95, 69, 78>>, Record(Tags(<<TagX>>), EmotionList(6), 8)),
    \* "É_E_ZHN"
    Entry(<<201, 95, 69>> \o ZH \o <<78>>,
          Record(NoTags, EmotionDict(2, Shape("list", 6)), 9)),
    \* "B"
    Entry(<<66>>, Record(Tags(<<TagY>>), EmotionStr(6), 10)),
    \* "B_ZH"
    Entry(<<66>> \o ZH, NotARecord),
    \* "C"
    Entry(<<67>>, Record(Tags(<<TagX>>), EmotionNum, 12)),
    \* "C_ZH"
    Entry(<<67>> \o ZH, Record(Tags(<<TagZ>>), EmotionAbsent, 15)),
    \* "D"
    Entry(<<68>>, Record(NoTags, EmotionDict(0, NoShape), 16)),
    \* "D_ZH"
    Entry(<<68>> \o ZH, Record(Tags(<<TagSpecial>>), EmotionList(5), 14)),
    \* "E" and the lone surrogate U+D800
    Entry(<<69, 55296>>, Record(Tags(<<TagY>>), EmotionList(6), 17)) }

\* whether the entries make a mapping: no key occurs twice
IsMapping(d) == \A m \in 1..Len(d) : \A n \in 1..Len(d) : d[m].key = d[n].key => m = n

\* the mappings of up to MaxRecords entries of the catalogue, in every order
Inputs ==
    UNION {{d \in [1..n -> Catalogue] : IsMapping(d)} : n \in 0..MaxRecords}

\* no file
NoFile == [exists |-> FALSE, content |-> <<>>, complete |-> FALSE]

\* a file that holds the whole JSON text of the mapping
File(content) == [exists |-> TRUE, content |-> content, complete |-> TRUE]

\* a file that json.dump has not finished: it holds the text of the entries
\* of content, and maybe the beginning of the next entry, and is no JSON text
Partial(content) == [exists |-> TRUE, content |-> content, complete |-> FALSE]

\* whether the utf-8 encoding of line 133 accepts the string: it has no
\* surrogate
Encodable(str) == \A n \in 1..Len(str) : str[n] < 55296 \/ str[n] > 57343

\* whether json.dump can write the entry: every string of it, the key, the
\* tags and the strings of the other fields of the record, has an encoding
EntryEncodable(entry) ==
    /\ Encodable(entry.key)
    /\ \A t \in 1..Len(entry.val.tags.list) : Encodable(entry.val.tags.list[t])
    /\ entry.val.encodable

Init ==
    /\ inputExists \in BOOLEAN
    /\ input \in IF inputExists THEN Inputs ELSE {<<>>}
    /\ output = NoFile
    /\ outputBefore = NoFile
    /\ runs = 1
    /\ pc = "start"
    /\ data = <<>>
    /\ sorted_keys = <<>>
    /\ i = 1
    /\ temp_map = <<>>
    /\ merged_data = <<>>
    /\ j = 1
    /\ final_data = <<>>
    /\ w = 1

(***************************************************************************)
(* strict_filter_json, step by step.                                       *)
(***************************************************************************)
\* lines 6-11: the input file is missing
ReadMissing ==
    /\ pc = "start"
    /\ ~inputExists
    /\ pc' = "missing"
    /\ outputBefore' = output
    /\ UNCHANGED <<inputExists, input, output, runs, data, sorted_keys, i,
                   temp_map, merged_data, j, final_data, w>>

\* a change of lines 6-8 and 133: the output file is opened for writing, and
\* so emptied, before the input is processed
ReadInputTruncating ==
    /\ pc = "start"
    /\ inputExists
    /\ data' = input
    /\ merged_data' = <<>>
    /\ sorted_keys' = SortedKeys(input)
    /\ temp_map' = <<>>
    /\ i' = 1
    /\ j' = 1
    /\ final_data' = <<>>
    /\ w' = 1
    /\ pc' = "merge"
    /\ outputBefore' = output
    /\ output' = Partial(<<>>)
    /\ UNCHANGED <<inputExists, input, runs>>

\* lines 6-8 and 39-46: the input is read and the keys are sorted
ReadInput ==
    /\ pc = "start"
    /\ inputExists
    /\ data' = input
    /\ merged_data' = <<>>
    /\ sorted_keys' = SortedKeys(input)
    /\ temp_map' = <<>>
    /\ i' = 1
    /\ j' = 1
    /\ final_data' = <<>>
    /\ w' = 1
    /\ pc' = "merge"
    /\ outputBefore' = output
    /\ UNCHANGED <<inputExists, input, output, runs>>

\* lines 48-54: a key of another language is skipped
MergeSkipLanguage ==
    /\ pc = "merge"
    /\ i <= Len(sorted_keys)
    /\ IsLanguageExcluded(sorted_keys[i])
    /\ i' = i + 1
    /\ UNCHANGED <<inputExists, input, output, outputBefore, runs, pc, data,
                   sorted_keys, temp_map, merged_data, j, final_data, w>>

\* lines 58-66: the base name is taken, the tags are merged into the stored
\* record, which is the object data holds under the stored key
MergeTags ==
    /\ pc = "merge"
    /\ i <= Len(sorted_keys)
    /\ LET key == sorted_keys[i]
           value == DictGet(data, key)
           base_name == BaseName(key)
       IN  /\ ~IsLanguageExcluded(key)
           /\ HasKey(temp_map, base_name)
           /\ LET existing_key == DictGet(temp_map, base_name)
                  existing_data == DictGet(merged_data, existing_key)
              IN  /\ existing_data.isDict
                  /\ value.isDict
                  /\ \E list \in ListsOf(NewTags(existing_data, value)) :
                        /\ merged_data' = DictPut(merged_data, existing_key,
                                                  SetTags(existing_data, list))
                        /\ data' = IF HasKey(data, existing_key)
                                   THEN DictPut(data, existing_key,
                                                SetTags(existing_data, list))
                                   ELSE data
    /\ i' = i + 1
    /\ UNCHANGED <<inputExists, input, output, outputBefore, runs, pc,
                   sorted_keys, temp_map, j, final_data, w>>

\* line 65: .get of a value that is no dict raises AttributeError
MergeTagsError ==
    /\ pc = "merge"
    /\ i <= Len(sorted_keys)
    /\ LET key == sorted_keys[i]
           value == DictGet(data, key)
           base_name == BaseName(key)
       IN  /\ ~IsLanguageExcluded(key)
           /\ HasKey(temp_map, base_name)
           /\ \/ ~DictGet(merged_data, DictGet(temp_map, base_name)).isDict
              \/ ~value.isDict
    /\ pc' = "failed"
    /\ UNCHANGED <<inputExists, input, output, outputBefore, runs, data,
                   sorted_keys, i, temp_map, merged_data, j, final_data, w>>

\* lines 67-70: a new base name
MergeNew ==
    /\ pc = "merge"
    /\ i <= Len(sorted_keys)
    /\ LET key == sorted_keys[i]
           value == DictGet(data, key)
           base_name == BaseName(key)
       IN  /\ ~IsLanguageExcluded(key)
           /\ ~HasKey(temp_map, base_name)
           /\ temp_map' = DictPut(temp_map, base_name, StoredKey(key, base_name))
           /\ merged_data' = DictPut(merged_data, StoredKey(key, base_name), value)
    /\ i' = i + 1
    /\ UNCHANGED <<inputExists, input, output, outputBefore, runs, pc, data,
                   sorted_keys, j, final_data, w>>

\* lines 72-77: the merge loop is over
MergeDone ==
    /\ pc = "merge"
    /\ i > Len(sorted_keys)
    /\ pc' = "filter"
    /\ j' = 1
    /\ final_data' = <<>>
    /\ UNCHANGED <<inputExists, input, output, outputBefore, runs, data,
                   sorted_keys, i, temp_map, merged_data, w>>

\* line 82: .get of a value that is no dict raises AttributeError;
\* line 90: len() of a number or of null raises TypeError
FilterError ==
    /\ pc = "filter"
    /\ j <= Len(merged_data)
    /\ LET value == merged_data[j].val
       IN  \/ ~value.isDict
           \/ ~HasLen(Emotions(value))
    /\ pc' = "failed"
    /\ UNCHANGED <<inputExists, input, output, outputBefore, runs, data,
                   sorted_keys, i, temp_map, merged_data, j, final_data, w>>

\* lines 90-91
FilterDropEmotion ==
    /\ pc = "filter"
    /\ j <= Len(merged_data)
    /\ LET value == merged_data[j].val
       IN  /\ value.isDict
           /\ HasLen(Emotions(value))
           /\ BelowThreshold(value)
    /\ j' = j + 1
    /\ UNCHANGED <<inputExists, input, output, outputBefore, runs, pc, data,
                   sorted_keys, i, temp_map, merged_data, final_data, w>>

\* lines 94-105
FilterDropTag ==
    /\ pc = "filter"
    /\ j <= Len(merged_data)
    /\ LET value == merged_data[j].val
       IN  /\ value.isDict
           /\ HasLen(Emotions(value))
           /\ ~BelowThreshold(value)
           /\ IsBannedTag(value)
    /\ j' = j + 1
    /\ UNCHANGED <<inputExists, input, output, outputBefore, runs, pc, data,
                   sorted_keys, i, temp_map, merged_data, final_data, w>>

\* lines 108-119
FilterDropName ==
    /\ pc = "filter"
    /\ j <= Len(merged_data)
    /\ LET value == merged_data[j].val
       IN  /\ value.isDict
           /\ HasLen(Emotions(value))
           /\ ~BelowThreshold(value)
           /\ ~IsBannedTag(value)
           /\ IsBannedName(merged_data[j].key)
    /\ j' = j + 1
    /\ UNCHANGED <<inputExists, input, output, outputBefore, runs, pc, data,
                   sorted_keys, i, temp_map, merged_data, final_data, w>>

\* line 121
FilterKeep ==
    /\ pc = "filter"
    /\ j <= Len(merged_data)
    /\ LET value == merged_data[j].val
       IN  /\ value.isDict
           /\ HasLen(Emotions(value))
           /\ ~BelowThreshold(value)
           /\ ~IsBannedTag(value)
           /\ ~IsBannedName(merged_data[j].key)
           /\ final_data' = DictPut(final_data, merged_data[j].key, value)
    /\ j' = j + 1
    /\ UNCHANGED <<inputExists, input, output, outputBefore, runs, pc, data,
                   sorted_keys, i, temp_map, merged_data, w>>

\* lines 126-133: the filter loop is over; open(output_file, 'w') makes the
\* file empty
OpenOutput ==
    /\ pc = "filter"
    /\ j > Len(merged_data)
    /\ output' = Partial(<<>>)
    /\ w' = 1
    /\ pc' = "write"
    /\ UNCHANGED <<inputExists, input, outputBefore, runs, data, sorted_keys,
                   i, temp_map, merged_data, j, final_data>>

\* line 134: json.dump writes the text of the next entry
DumpEntry ==
    /\ pc = "write"
    /\ w <= Len(final_data)
    /\ EntryEncodable(final_data[w])
    /\ output' = Partial(Append(output.content, final_data[w]))
    /\ w' = w + 1
    /\ UNCHANGED <<inputExists, input, outputBefore, runs, pc, data,
                   sorted_keys, i, temp_map, merged_data, j, final_data>>

\* line 134: a string with a surrogate raises UnicodeEncodeError; what was
\* written before it stays in the file
DumpError ==
    /\ pc = "write"
    /\ w <= Len(final_data)
    /\ ~EntryEncodable(final_data[w])
    /\ pc' = "failed"
    /\ UNCHANGED <<inputExists, input, output, outputBefore, runs, data,
                   sorted_keys, i, temp_map, merged_data, j, final_data, w>>

\* lines 134-135: json.dump is over and the file is closed
CloseOutput ==
    /\ pc = "write"
    /\ w > Len(final_data)
    /\ output' = File(output.content)
    /\ pc' = "done"
    /\ UNCHANGED <<inputExists, input, outputBefore, runs, data, sorted_keys,
                   i, temp_map, merged_data, j, final_data, w>>

\* The environment, not the program: strict_filter_json is called again with
\* the file it has written as input_file (the re-run of the pipeline on its
\* own output).
Rerun ==
    /\ pc = "done"
    /\ runs < MaxRuns
    /\ runs' = runs + 1
    /\ input' = output.content
    /\ inputExists' = TRUE
    /\ pc' = "start"
    /\ UNCHANGED <<output, outputBefore, data, sorted_keys, i, temp_map,
                   merged_data, j, final_data, w>>

Next ==
    \/ ReadMissing
    \/ ReadInput
    \/ MergeSkipLanguage
    \/ MergeTags
    \/ MergeTagsError
    \/ MergeNew
    \/ MergeDone
    \/ FilterError
    \/ FilterDropEmotion
    \/ FilterDropTag
    \/ FilterDropName
    \/ FilterKeep
    \/ OpenOutput
    \/ DumpEntry
    \/ DumpError
    \/ CloseOutput
    \/ Rerun

Spec == Init /\ [][Next]_vars

(***************************************************************************)
(* The vocabulary of the claims, stated apart from the code's expressions. *)
(***************************************************************************)
\* the canonical identity of a key: the key without its trailing marker
Canonical(k) == IF EndsWith(k, ZH) THEN SubSeq(k, 1, Len(k) - Len(ZH)) ELSE k

IsMarked(k) == EndsWith(k, ZH)

\* the key, lower-cased, contains a language-exclusion marker
KeyIsForeign(k) ==
    LET lowered == StrLower(k)
    IN  \E n \in 1..Len(LanguageMarkers) : Contains(lowered, LanguageMarkers[n])

\* the keys of the input that language exclusion leaves
KeptKeys == {k \in KeySet(input) : ~KeyIsForeign(k)}

\* the tags of a record as a set, the empty set when it has no tags field
TagSet(value) == IF value.tags.present THEN ToSet(value.tags.list) ELSE {}

\* some tag contains a BANNED_TAGS entry as a substring
HasBannedTag(value) ==
    \E t \in TagSet(value) : \E b \in ToSet(BANNED_TAGS) : Contains(t, b)

\* the name part of a key: its last hyphen-delimited segment without the
\* trailing marker
CanonicalName(k) == Canonical(LastSegment(k))

HasBannedName(k) == CanonicalName(k) \in ToSet(BANNED_NAMES)

\* the emotion count n of a record: the length of a sequence, the length of
\* the first value of a mapping (0 when it is empty), 0 for any other shape
EmotionCount(value) ==
    IF value.emotion.kind = "list" THEN value.emotion.len
    ELSE IF value.emotion.kind = "dict" /\ value.emotion.len > 0
         THEN value.emotion.first.len
         ELSE 0

\* the merge stage puts the two keys into one group: they have the same
\* base name
SameGroup(k1, k2) == StrRemoveAll(k1, ZH) = StrRemoveAll(k2, ZH)

\* the merge stage of the current run is over
MergeFinished == pc \in {"filter", "done"}

\* the run failed in the merge stage
FailedInMerge == pc = "failed" /\ i <= Len(sorted_keys)

\* the run failed in the filter stage
FailedInFilter == pc = "failed" /\ i > Len(sorted_keys) /\ j <= Len(merged_data)

\* the records agree in every field, tags compared as sets
SameRecord(r1, r2) ==
    /\ r1.isDict = r2.isDict
    /\ r1.emotion = r2.emotion
    /\ r1.id = r2.id
    /\ r1.encodable = r2.encodable
    /\ r1.tags.present = r2.tags.present
    /\ TagSet(r1) = TagSet(r2)

\* the records agree in every field other than tags
SameButTags(r1, r2) ==
    /\ r1.isDict = r2.isDict
    /\ r1.emotion = r2.emotion
    /\ r1.id = r2.id
    /\ r1.encodable = r2.encodable

SameMapping(d1, d2) ==
    /\ KeySet(d1) = KeySet(d2)
    /\ \A k \in KeySet(d1) : SameRecord(DictGet(d1, k), DictGet(d2, k))

(***************************************************************************)
(* Claims.                                                                 *)
(***************************************************************************)
\* C1: after the merge stage, every canonical identity (key without its
\* trailing _ZH) among the input keys that language exclusion leaves has
\* exactly one record in the merged mapping.
C1_MergeCompleteness ==
    MergeFinished =>
        \A c \in {Canonical(k) : k \in KeptKeys} :
            Cardinality({m \in KeySet(merged_data) : Canonical(m) = c}) = 1

\* C2: when a marked and an unmarked key, both not language-excluded, share
\* a canonical identity, the merged mapping holds the record under the marked
\* key, with every field but tags as in the marked input record.
C2_Precedence ==
    MergeFinished =>
        \A m \in KeptKeys : \A u \in KeptKeys :
            (IsMarked(m) /\ ~IsMarked(u) /\ Canonical(m) = Canonical(u)) =>
                /\ HasKey(merged_data, m)
                /\ ~HasKey(merged_data, u)
                /\ SameButTags(DictGet(merged_data, m), DictGet(input, m))

\* C3: for a canonical identity shared by two or more non-excluded input
\* records, the tags of the one merged record are, as a set, the union of the
\* tags of those input records.
C3_TagUnion ==
    MergeFinished =>
        \A c \in {Canonical(k) : k \in KeptKeys} :
            LET group == {k \in KeptKeys : Canonical(k) = c}
                stored == {m \in KeySet(merged_data) : Canonical(m) = c}
            IN  Cardinality(group) >= 2 =>
                    /\ Cardinality(stored) = 1
                    /\ \A m \in stored :
                          TagSet(DictGet(merged_data, m))
                              = UNION {TagSet(DictGet(input, k)) : k \in group}

\* C4: a record of the merged mapping is in the final mapping iff its emotion
\* count is at least MIN_EMOTION_COUNT, none of its tags contains a banned
\* tag and its name part is no banned name.
C4_CriteriaFilter ==
    pc = "done" =>
        \A n \in 1..Len(merged_data) :
            HasKey(final_data, merged_data[n].key) <=>
                /\ EmotionCount(merged_data[n].val) >= MIN_EMOTION_COUNT
                /\ ~HasBannedTag(merged_data[n].val)
                /\ ~HasBannedName(merged_data[n].key)

\* C5: a record that passes the emotion and tag criteria fails the name
\* criterion iff the last hyphen-delimited segment of its key, without the
\* trailing marker, is exactly a banned name.
C5_NameBlacklist ==
    pc = "done" =>
        \A n \in 1..Len(merged_data) :
            (~BelowThreshold(merged_data[n].val) /\ ~IsBannedTag(merged_data[n].val)) =>
                (~HasKey(final_data, merged_data[n].key)
                    <=> HasBannedName(merged_data[n].key))

\* C6: the emotion count of a record is the length of a sequence, the length
\* of the first value of a mapping or 0 for an empty one, and 0 for any other
\* shape; the threshold alone then decides, and the run does not fail on a
\* record.
C6_EmotionCoercion ==
    /\ FailedInFilter => ~merged_data[j].val.isDict
    /\ pc = "done" =>
          \A n \in 1..Len(merged_data) :
              (~HasBannedTag(merged_data[n].val) /\ ~IsBannedName(merged_data[n].key)) =>
                  (HasKey(final_data, merged_data[n].key)
                      <=> EmotionCount(merged_data[n].val) >= MIN_EMOTION_COUNT)

\* C7: running the program on the mapping it has written yields a mapping
\* with the same keys and the same records, tags compared as sets.
C7_Idempotence ==
    (pc = "done" /\ runs >= 2) => SameMapping(output.content, outputBefore.content)

\* a second run has ended, and kept a marked record that the first run had
\* merged tags into
C7_Witness ==
    /\ pc = "done"
    /\ runs >= 2
    /\ \E n \in 1..Len(output.content) :
          /\ IsMarked(output.content[n].key)
          /\ Cardinality(TagSet(output.content[n].val)) >= 2

\* C8: a language-excluded key is never in the merged or the final mapping,
\* never gives its tags to a merged record, and never takes the place of a
\* non-excluded record of its group.
C8_LanguageExclusion ==
    pc \in {"merge", "filter", "done", "failed"} =>
        LET kept == KeptKeys
        IN  /\ \A k \in KeySet(input) \ kept :
                  /\ ~HasKey(merged_data, k)
                  /\ ~HasKey(final_data, k)
                  /\ \A n \in 1..Len(temp_map) : temp_map[n].val # k
            /\ \A n \in 1..Len(merged_data) :
                  TagSet(merged_data[n].val) \subseteq
                      UNION {TagSet(DictGet(input, k)) :
                             k \in {g \in kept : SameGroup(g, merged_data[n].key)}}
            /\ MergeFinished =>
                  \A k \in kept :
                      \E m \in kept : HasKey(merged_data, m) /\ SameGroup(m, k)

\* the run has ended on an input with an excluded key that has tags and a
\* non-excluded key of the same group, which is in the final mapping
C8_Witness ==
    /\ pc = "done"
    /\ \E k \in KeySet(input) : \E g \in KeptKeys :
          /\ KeyIsForeign(k)
          /\ TagSet(DictGet(input, k)) # {}
          /\ SameGroup(k, g)
          /\ HasKey(final_data, g)

\* C9: the output file is as it was while the run merges and filters, after
\* a missing input and after an error in the merge or the filter stage; it is
\* touched only when the merge and the filter have gone through every
\* record, and a run that ends well leaves the final mapping in it.
C9_NoPartialOutput ==
    /\ pc \in {"merge", "filter", "missing"} => output = outputBefore
    /\ (FailedInMerge \/ FailedInFilter) => output = outputBefore
    /\ (pc \in {"write", "done", "failed"} /\ output # outputBefore) =>
          /\ i > Len(sorted_keys)
          /\ j > Len(merged_data)
    /\ pc = "done" => output = File(final_data)

\* the run has failed after the filter had kept a record, and no output file
\* was written
C9_Witness ==
    /\ FailedInFilter
    /\ Len(final_data) >= 1
    /\ ~output.exists

\* C10: when a non-excluded input record has a tag that contains a banned
\* tag, the final mapping has no record of its canonical identity.
C10_BannedTagAnywhere ==
    pc = "done" =>
        \A k \in KeptKeys :
            HasBannedTag(DictGet(input, k)) =>
                \A f \in KeySet(final_data) : Canonical(f) # Canonical(k)

\* the run has ended on an input where a marked record with clean tags, a
\* name that is not banned and enough emotions shares its canonical identity
\* with an unmarked record that has a banned tag; the marked record is not in
\* the final mapping
C10_Witness ==
    /\ pc = "done"
    /\ \E m \in KeptKeys : \E u \in KeptKeys :
          /\ IsMarked(m) /\ ~IsMarked(u) /\ Canonical(m) = Canonical(u)
          /\ ~HasBannedTag(DictGet(input, m))
          /\ ~HasBannedName(m)
          /\ EmotionCount(DictGet(input, m)) >= MIN_EMOTION_COUNT
          /\ HasBannedTag(DictGet(input, u))
          /\ HasKey(merged_data, m)
          /\ ~HasKey(final_data, m)

====
